---------------------------- MODULE Spec2Model ----------------------------
(***************************************************************************)
(* Disk IO of one torrent (cratetorrent, src/disk/io/torrent.rs): the      *)
(* write buffer of in-progress pieces, the flush workers that hash and     *)
(* write completed pieces, the read cache and the read workers.            *)
(*                                                                         *)
(* Sizes are scaled down: a block is BLOCK_LEN bytes, the torrent is two   *)
(* pieces (4 and 2 bytes) laid out over two files (5 and 1 bytes), so that *)
(* piece 0 has two blocks and piece 1 spans both files.  The digest is an  *)
(* injective 20-byte encoding of the hashed bytes (no collisions, as is    *)
(* assumed of SHA-1).                                                      *)
(***************************************************************************)
EXTENDS Integers, Sequences, FiniteSets, Bags, TLC

\* The number of write_block / read_block calls the model follows.
MaxCalls == 3

\* The number of blocking workers that may be in flight at the same time.
MaxInFlight == 2

\* The number of calls followed when each call waits for the workers of the
\* calls before it.
MaxSeqCalls == 5

\* The number of calls followed when the workers are scheduled fairly.
MaxFairCalls == 2

\* The number of calls followed when pieces are downloaded and then served.
MaxSeedCalls == 4

\* The number of calls followed when peers ask for blocks at any time.
MaxPeerCalls == 5

\* The number of calls followed when both channels stay open and the
\* workers are scheduled fairly.
MaxOpenCalls == 3

\* Length of a piece digest in the concatenated hash table.
SHA1_LEN == 20

\* Length of a block (0x4000 in the crate, scaled down).
BLOCK_LEN == 2

\* StorageInfo of the torrent: an archive of two files.
info ==
    [ piece_count    |-> 2,
      piece_len      |-> 2 * BLOCK_LEN,
      last_piece_len |-> BLOCK_LEN,
      download_len   |-> 3 * BLOCK_LEN,
      files          |-> << [len |-> 5, torrent_offset |-> 0],
                            [len |-> 1, torrent_offset |-> 5] >> ]

\* The content the torrent's metainfo describes, and a payload that is not
\* part of it.
TorrentContent == << 1, 2, 3, 4, 5, 6 >>
Corrupt == << 9, 9 >>

Min(a, b) == IF a < b THEN a ELSE b
Max(a, b) == IF a > b THEN a ELSE b

\* s[from+1 .. to], with 0-based half-open bounds like a Rust slice.
Slice(s, from, to) == [ i \in 1..(to - from) |-> s[from + i] ]

------------------------------------------------------------------------------
(* The layout lookups of StorageInfo. *)

\* StorageInfo::piece_len
piece_len(index) ==
    IF index = info.piece_count - 1 THEN [ok |-> TRUE, val |-> info.last_piece_len]
    ELSE IF index < info.piece_count - 1 THEN [ok |-> TRUE, val |-> info.piece_len]
    ELSE [ok |-> FALSE, val |-> 0]

\* StorageInfo::torrent_piece_offset
torrent_piece_offset(index) == index * info.piece_len

\* StorageInfo::files_intersecting_piece: the range [start, end) of the
\* indices (0-based) of the files that hold bytes of the piece.
files_intersecting_piece(index) ==
    LET len == piece_len(index)
        lo  == torrent_piece_offset(index)
        hi  == lo + len.val
        hit == { f \in 1..Len(info.files) :
                    /\ info.files[f].torrent_offset < hi
                    /\ lo < info.files[f].torrent_offset + info.files[f].len }
    IN  IF ~len.ok \/ hit = {} THEN [ok |-> FALSE, start |-> 0, end |-> 0]
        ELSE [ ok    |-> TRUE,
               start |-> (CHOOSE f \in hit : \A g \in hit : f <= g) - 1,
               end   |-> (CHOOSE f \in hit : \A g \in hit : f >= g) ]

\* FileInfo::get_slice: the part of file f (0-based) that the torrent byte
\* range [lo, lo + len) covers, as an offset in the file and a length.
get_slice(f, lo, len) ==
    LET fi   == info.files[f + 1]
        from == Max(lo, fi.torrent_offset)
        to   == Min(lo + len, fi.torrent_offset + fi.len)
    IN  [offset |-> from - fi.torrent_offset, len |-> to - from]

\* BlockInfo::index_in_piece
index_in_piece(block_info) == block_info.offset \div BLOCK_LEN

------------------------------------------------------------------------------
(* The piece digest. *)

RECURSIVE Encode(_)
Encode(bytes) ==
    IF bytes = << >> THEN 0
    ELSE (Encode(Slice(bytes, 0, Len(bytes) - 1)) * 11 + bytes[Len(bytes)] + 1)
            % 16777216

\* The 20-byte digest of a byte string.
Sha1(bytes) ==
    LET code == Encode(bytes)
    IN  [ i \in 1..SHA1_LEN |->
            IF i = SHA1_LEN THEN code % 256
            ELSE IF i = SHA1_LEN - 1 THEN (code \div 256) % 256
            ELSE IF i = SHA1_LEN - 2 THEN (code \div 65536) % 256
            ELSE 0 ]

\* The bytes of piece `index` in the torrent's content.
PieceContent(index) ==
    Slice(TorrentContent, torrent_piece_offset(index),
          torrent_piece_offset(index) + piece_len(index).val)

RECURSIVE HashTable(_)
HashTable(n) ==
    IF n = 0 THEN << >> ELSE HashTable(n - 1) \o Sha1(PieceContent(n - 1))

------------------------------------------------------------------------------
(* Piece: the write buffer of one piece. *)

\* The offsets of a block map in ascending order (BTreeMap iteration).
RECURSIVE SortedOffsets(_)
SortedOffsets(offs) ==
    IF offs = {} THEN << >>
    ELSE LET m == CHOOSE o \in offs : \A p \in offs : o <= p
         IN  << m >> \o SortedOffsets(offs \ {m})

RECURSIVE ConcatAt(_, _)
ConcatAt(blocks, order) ==
    IF order = << >> THEN << >>
    ELSE blocks[Head(order)] \o ConcatAt(blocks, Tail(order))

\* The blocks of a piece concatenated in offset order.
Concat(blocks) == ConcatAt(blocks, SortedOffsets(DOMAIN blocks))

\* Piece::enqueue_block
enqueue_block(piece, offset, data) ==
    [ piece EXCEPT !.blocks =
        [ o \in (DOMAIN piece.blocks) \cup {offset} |->
            IF o = offset THEN data ELSE piece.blocks[o] ] ]

\* Piece::is_complete
is_complete(piece) == Len(Concat(piece.blocks)) = piece.len

\* Piece::matches_hash
matches_hash(piece) == Sha1(Concat(piece.blocks)) = piece.expected_hash

------------------------------------------------------------------------------
(* The state of Torrent and of what it talks to. *)

VARIABLES
    piece_hashes,   \* Torrent::piece_hashes, the concatenated expected digests
    write_buf,      \* Torrent::write_buf: piece index -> Piece
    read_cache,     \* ThreadContext::read_cache: piece index -> blocks
    files,          \* ThreadContext::files: the content of each file on disk
    stats,          \* ThreadContext::stats
    workers,        \* the closures running on the blocking pool (a bag)
    finished,       \* the closure that ended most recently, as it ended
    flushed,        \* piece index -> the bytes of its last successful flush
    chan_open,      \* whether the receiver of ThreadContext::chan is alive
    last,           \* the most recent write_block / read_block call
    ncalls          \* the number of calls made so far

vars == << piece_hashes, write_buf, read_cache, files, stats, workers,
           finished, flushed, chan_open, last, ncalls >>

\* The piece indices and block offsets requests are made with: index 2 is
\* beyond the torrent, offset BLOCK_LEN is beyond the one block of piece 1.
PieceIndices == 0..info.piece_count
Offsets == { 0, BLOCK_LEN }
BlockInfos == [ piece_index : PieceIndices, offset : Offsets ]

\* The payloads a block is written with: the block of the torrent's content
\* at that place, if there is one, and a corrupt one.
Payloads(block_info) ==
    LET at == torrent_piece_offset(block_info.piece_index) + block_info.offset
    IN  { Corrupt } \cup
        ( IF at + BLOCK_LEN <= info.download_len
          THEN { Slice(TorrentContent, at, at + BLOCK_LEN) } ELSE {} )

\* torrent::Message and peer::Command values.
NoMsg == [type |-> "None"]
PieceCompletionOk(index, valid) ==
    [type |-> "PieceCompletion", ok |-> TRUE, index |-> index, is_valid |-> valid]
PieceCompletionErr(e) ==
    [type |-> "PieceCompletion", ok |-> FALSE, error |-> e]
ReadErrorMsg(block_info, e) ==
    [type |-> "ReadError", block_info |-> block_info, error |-> e]
BlockMsg(block_info, data) ==
    [type |-> "Block", block_info |-> block_info, data |-> data]

\* The record of a call: what it returned, what it tried to send upstream and
\* on the reply channel and whether that arrived, whether it spawned a
\* worker, whether its piece had been flushed successfully before it, and
\* (for write_block) the payload it was given.
Call(op, block_info, ret, sent, delivered, reply, replied, spawned) ==
    [ op |-> op, info |-> block_info, ret |-> ret, sent |-> sent,
      delivered |-> delivered, reply |-> reply, replied |-> replied,
      spawned |-> spawned,
      after_flush |-> block_info.piece_index \in DOMAIN flushed,
      data |-> << >> ]

NoCall ==
    [ op |-> "none", info |-> [piece_index |-> 0, offset |-> 0], ret |-> "Ok",
      sent |-> NoMsg, delivered |-> FALSE, reply |-> NoMsg, replied |-> FALSE,
      spawned |-> FALSE, after_flush |-> FALSE, data |-> << >> ]

\* A flush worker (the closure of write_block) and a read worker (the
\* closure of read_block) as first scheduled.
FlushWorker(piece_index, piece) ==
    [ kind |-> "flush", piece_index |-> piece_index, piece |-> piece,
      block_info |-> [piece_index |-> piece_index, offset |-> 0],
      file_range |-> piece.file_range, pc |-> "hash",
      fi |-> piece.file_range.start, is_valid |-> FALSE, buf |-> << >>,
      sent |-> NoMsg, sends |-> 0, delivered |-> FALSE,
      reply |-> NoMsg, replied |-> FALSE, after_flush |-> FALSE ]

ReadWorker(block_info, file_range, len) ==
    [ kind |-> "read", piece_index |-> block_info.piece_index,
      piece |-> [len |-> len], block_info |-> block_info,
      file_range |-> file_range, pc |-> "lock",
      fi |-> file_range.start, is_valid |-> FALSE, buf |-> << >>,
      sent |-> NoMsg, sends |-> 0, delivered |-> FALSE,
      reply |-> NoMsg, replied |-> FALSE,
      after_flush |-> block_info.piece_index \in DOMAIN flushed ]

\* No worker.
Idle ==
    [ kind |-> "idle", piece_index |-> 0, piece |-> [len |-> 0],
      block_info |-> [piece_index |-> 0, offset |-> 0],
      file_range |-> [ok |-> FALSE, start |-> 0, end |-> 0], pc |-> "idle",
      fi |-> 0, is_valid |-> FALSE, buf |-> << >>,
      sent |-> NoMsg, sends |-> 0, delivered |-> FALSE,
      reply |-> NoMsg, replied |-> FALSE, after_flush |-> FALSE ]

\* What is recorded of a worker as it ends: its hashed piece, its result
\* and what it sent; its position in the files and its buffer are dropped.
Ended(w, pc) ==
    [ w EXCEPT !.pc = pc, !.fi = 0, !.buf = << >>,
               !.file_range = Idle.file_range ]

\* The workers in flight, and the bag of them after one is spawned, after
\* `me` has taken a step to `next`, and after `me` has ended.
InFlight == BagToSet(workers)
Spawn(new) == workers (+) SetToBag({new})
Step(me, next) == (workers (-) SetToBag({me})) (+) SetToBag({next})
Exit(me) == workers (-) SetToBag({me})

\* sync::RwLock<TorrentFile>: who holds file f (0-based).
WriteHeld(f) ==
    { w \in InFlight : w.kind = "flush" /\ w.pc = "write" /\ w.fi = f }
ReadHeld(f) ==
    { w \in InFlight : w.kind = "read" /\ w.pc = "read" /\ w.fi = f }

\* Torrent::new: nothing buffered, nothing cached, the files opened (and
\* created empty), the counters at zero.
Init ==
    /\ piece_hashes = HashTable(info.piece_count)
    /\ write_buf = << >>
    /\ read_cache = << >>
    /\ files = [ f \in 1..Len(info.files) |-> << >> ]
    /\ stats = [ write_count |-> 0, write_failure_count |-> 0,
                 read_count |-> 0, read_failure_count |-> 0 ]
    /\ workers = EmptyBag
    /\ finished = Idle
    /\ flushed = << >>
    /\ chan_open = TRUE
    /\ last = NoCall
    /\ ncalls = 0

------------------------------------------------------------------------------
(* The write path. *)

\* Sender::send on the notification channel: an error iff the receiver is
\* gone.
SendOk == chan_open

\* Torrent::start_new_piece: the new Piece, or the WriteError.
start_new_piece(piece_index) ==
    LET hash_pos   == piece_index * 20
        len        == piece_len(piece_index)
        file_range == files_intersecting_piece(piece_index)
    IN  IF hash_pos + 20 > Len(piece_hashes)
            THEN [ok |-> FALSE, error |-> "InvalidPieceIndex"]
        ELSE IF ~len.ok
            THEN [ok |-> FALSE, error |-> "InvalidPieceIndex"]
        ELSE IF ~file_range.ok
            THEN [ok |-> FALSE, error |-> "InvalidPieceIndex"]
        ELSE [ ok    |-> TRUE,
               piece |-> [ expected_hash |->
                               Slice(piece_hashes, hash_pos, hash_pos + 20),
                           len           |-> len.val,
                           blocks        |-> << >>,
                           file_range    |-> file_range ] ]

\* (a faulty variant of flush_due: a complete piece stays in the write
\* buffer)
flush_due_never(piece) == FALSE

\* (a faulty variant of flush_due: the piece is flushed at its first block)
flush_due_eager(piece) == TRUE

\* write_block, line 237: whether the piece is handed to a flush worker.
flush_due(piece) == is_complete(piece)

\* (a faulty variant of take_piece: the completed piece stays in the write buffer)
take_piece_keep(piece_index, piece) ==
    [ i \in (DOMAIN write_buf) \cup {piece_index} |->
        IF i = piece_index THEN piece ELSE write_buf[i] ]

\* write_block, line 240: the write buffer once the completed piece is
\* removed from it.
take_piece(piece_index, piece) ==
    [ i \in (DOMAIN write_buf) \ {piece_index} |-> write_buf[i] ]

\* (a faulty variant of keep_piece: a piece already in the write buffer is
\* left as it was, so a block enqueued again at a filled offset is dropped)
keep_piece_stale(piece_index, piece) ==
    [ i \in (DOMAIN write_buf) \cup {piece_index} |->
        IF i \in DOMAIN write_buf THEN write_buf[i] ELSE piece ]

\* write_block, lines 228 to 233: the block is enqueued into the piece in
\* the write buffer, where the piece stays while it is incomplete.
keep_piece(piece_index, piece) ==
    [ i \in (DOMAIN write_buf) \cup {piece_index} |->
        IF i = piece_index THEN piece ELSE write_buf[i] ]

\* Torrent::write_block
write_block(block_info, data) ==
    LET piece_index == block_info.piece_index
        fresh       == piece_index \notin DOMAIN write_buf
        started     == start_new_piece(piece_index)
    IN  IF fresh /\ ~started.ok
        THEN \* the send's error is returned with `?`, otherwise Ok(())
             /\ last' = [ Call("write", block_info,
                               IF SendOk THEN "Ok" ELSE "Err",
                               PieceCompletionErr(started.error), SendOk,
                               NoMsg, FALSE, FALSE) EXCEPT !.data = data ]
             /\ UNCHANGED << write_buf, workers >>
        ELSE LET buffered == IF fresh THEN started.piece
                             ELSE write_buf[piece_index]
                 piece    == enqueue_block(buffered, block_info.offset, data)
             IN  IF flush_due(piece)
                 THEN /\ write_buf' = take_piece(piece_index, piece)
                      /\ workers' =
                            Spawn(FlushWorker(piece_index, piece))
                      /\ last' = [ Call("write", block_info, "Ok", NoMsg,
                                        FALSE, NoMsg, FALSE, TRUE)
                                   EXCEPT !.data = data ]
                 ELSE /\ write_buf' = keep_piece(piece_index, piece)
                      /\ workers' = workers
                      /\ last' = [ Call("write", block_info, "Ok", NoMsg,
                                        FALSE, NoMsg, FALSE, FALSE)
                                   EXCEPT !.data = data ]

\* A call of write_block by the disk task.
WriteBlockCall ==
    /\ \E block_info \in BlockInfos :
        \E data \in Payloads(block_info) : write_block(block_info, data)
    /\ ncalls' = ncalls + 1
    /\ UNCHANGED << piece_hashes, read_cache, files, stats, finished,
                    flushed, chan_open >>

WriteBlock ==
    /\ ncalls < MaxCalls
    /\ BagCardinality(workers) < MaxInFlight
    /\ WriteBlockCall

\* TorrentFile::write of `bytes` at `offset`: a write past the end of the
\* file leaves a hole of zeros before it.
file_write(content, offset, bytes) ==
    [ i \in 1..Max(Len(content), offset + Len(bytes)) |->
        IF i > offset /\ i <= offset + Len(bytes) THEN bytes[i - offset]
        ELSE IF i <= Len(content) THEN content[i]
        ELSE 0 ]

\* What a flush worker writes to file f (0-based) in Piece::write: the
\* slice of the file and the bytes of the piece that go there.
piece_file_slice(w, f) ==
    LET lo == torrent_piece_offset(w.piece_index)
        sl == get_slice(f, lo, w.piece.len)
        at == info.files[f + 1].torrent_offset + sl.offset - lo
    IN  [ offset |-> sl.offset, len |-> sl.len,
          bytes  |-> Slice(Concat(w.piece.blocks), at, at + sl.len) ]

\* (a faulty variant of after_hash: a valid piece is written only while the
\* notification channel has a receiver)
after_hash_if_listening(valid) ==
    IF valid /\ chan_open THEN "lock" ELSE "notify"

\* (a faulty variant of after_hash: the piece is written whatever its hash)
after_hash_unchecked(valid) == "lock"

\* write_block, lines 258 and 296: only a valid piece is written.
after_hash(valid) == IF valid THEN "lock" ELSE "notify"

\* The closure of write_block, line 255: the piece is hashed; an invalid
\* piece goes straight to the notification.
FlushHash(w) ==
    /\ w.kind = "flush" /\ w.pc = "hash"
    /\ LET valid == matches_hash(w.piece)
       IN  workers' = Step(w, [ w EXCEPT !.is_valid = valid,
                                         !.pc = after_hash(valid) ])
    /\ UNCHANGED << piece_hashes, write_buf, read_cache, files, stats,
                    finished, flushed, chan_open, last, ncalls >>

\* (a faulty variant of FlushLock: write access is taken without waiting for
\* the workers that hold the file)
FlushLock_unguarded(w) ==
    /\ w.kind = "flush" /\ w.pc = "lock"
    /\ workers' = Step(w, [ w EXCEPT !.pc = "write" ])
    /\ UNCHANGED << piece_hashes, write_buf, read_cache, files, stats,
                    finished, flushed, chan_open, last, ncalls >>

\* Piece::write takes the write lock of the next file of the piece.
FlushLock(w) ==
    /\ w.kind = "flush" /\ w.pc = "lock"
    /\ WriteHeld(w.fi) = {} /\ ReadHeld(w.fi) = {}
    /\ workers' = Step(w, [ w EXCEPT !.pc = "write" ])
    /\ UNCHANGED << piece_hashes, write_buf, read_cache, files, stats,
                    finished, flushed, chan_open, last, ncalls >>

\* (a faulty variant of write_failed: the failure is counted, and the piece
\* is reported valid)
write_failed_reports_ok(me) ==
    /\ stats' = [ stats EXCEPT !.write_failure_count = @ + 1 ]
    /\ workers' = Exit(me)
    /\ finished' = Ended([ me EXCEPT
            !.sent = PieceCompletionOk(me.piece_index, TRUE),
            !.sends = @ + 1,
            !.delivered = SendOk ], "done")

\* (a faulty variant of write_failed: the failure is reported but not
\* counted)
write_failed_uncounted(me) ==
    /\ stats' = stats
    /\ workers' = Exit(me)
    /\ finished' = Ended([ me EXCEPT
            !.sent = PieceCompletionErr("Io"),
            !.sends = @ + 1,
            !.delivered = SendOk ], "done")

\* (a faulty variant of write_failed: the `return` of line 289 is missing, and the
\* worker goes on to the notification of line 301)
write_failed_no_return(me) ==
    /\ stats' = [ stats EXCEPT !.write_failure_count = @ + 1 ]
    /\ workers' = Step(me, [ me EXCEPT
            !.sent = PieceCompletionErr("Io"),
            !.sends = @ + 1,
            !.delivered = SendOk,
            !.pc = "notify" ])
    /\ finished' = finished

\* write_block, lines 267 to 289: a failed write is counted and reported,
\* and the worker ends.
write_failed(me) ==
    /\ stats' = [ stats EXCEPT !.write_failure_count = @ + 1 ]
    /\ workers' = Exit(me)
    /\ finished' = Ended([ me EXCEPT
            !.sent = PieceCompletionErr("Io"),
            !.sends = @ + 1,
            !.delivered = SendOk ], "done")

\* Piece::write writes the file it holds and releases it.  After the last
\* file write_count grows (line 293); a failed write ends the flush with
\* write_failure_count and PieceCompletion(Err) (lines 264 to 290).
FlushWrite(w) ==
    /\ w.kind = "flush" /\ w.pc = "write"
    /\ LET me == w
           sl == piece_file_slice(me, me.fi)
       IN  \E io_ok \in BOOLEAN :
            IF io_ok
            THEN /\ files' = [ files EXCEPT ![me.fi + 1] =
                                file_write(@, sl.offset, sl.bytes) ]
                 /\ IF me.fi + 1 < me.file_range.end
                    THEN /\ workers' = Step(me, [ me EXCEPT
                                            !.fi = me.fi + 1, !.pc = "lock" ])
                         /\ UNCHANGED << stats, finished >>
                    ELSE /\ workers' = Step(me, [ me EXCEPT !.pc = "notify" ])
                         /\ stats' = [ stats EXCEPT !.write_count =
                                            @ + me.piece.len ]
                         /\ finished' = finished
            ELSE /\ files' = files
                 /\ write_failed(me)
    /\ UNCHANGED << piece_hashes, write_buf, read_cache, flushed, chan_open,
                    last, ncalls >>

\* (a faulty variant of completion: the piece is always reported valid)
completion_always_valid(w) == PieceCompletionOk(w.piece_index, TRUE)

\* write_block, lines 302 to 307: the message of a flush that got past the
\* hash check and the write.
completion(w) == PieceCompletionOk(w.piece_index, w.is_valid)

\* The closure of write_block, line 301: the piece's completion and hash
\* result are sent; a send error is logged and dropped.
FlushNotify(w) ==
    /\ w.kind = "flush" /\ w.pc = "notify"
    /\ workers' = Exit(w)
    /\ finished' = Ended([ w EXCEPT
            !.sent = completion(w),
            !.sends = @ + 1,
            !.delivered = SendOk ], "done")
    /\ flushed' =
            IF w.is_valid
            THEN [ i \in (DOMAIN flushed) \cup {w.piece_index} |->
                    IF i = w.piece_index THEN Concat(w.piece.blocks)
                    ELSE flushed[i] ]
            ELSE flushed
    /\ UNCHANGED << piece_hashes, write_buf, read_cache, files, stats,
                    chan_open, last, ncalls >>

------------------------------------------------------------------------------
(* The read path. *)

\* The bytes of a piece as the list of its blocks (Vec<CachedBlock>).
RECURSIVE to_blocks(_)
to_blocks(bytes) ==
    IF bytes = << >> THEN << >>
    ELSE LET n == Min(BLOCK_LEN, Len(bytes))
         IN  << Slice(bytes, 0, n) >> \o to_blocks(Slice(bytes, n, Len(bytes)))

\* (a faulty variant of cached_block: the first block of the cached piece is
\* sent whatever block was asked for)
cached_block_first(blocks, block_index) == blocks[1]

\* read_block, line 416: the requested block of the cached piece.
cached_block(blocks, block_index) == blocks[block_index + 1]

\* Torrent::read_block; reply_open: whether the receiver of result_chan is
\* alive.
read_block(block_info, reply_open) ==
    LET piece_index == block_info.piece_index
        block_index == index_in_piece(block_info)
    IN  IF piece_index \in DOMAIN read_cache
        THEN LET blocks == read_cache[piece_index]
             IN  IF block_index >= Len(blocks)
                 THEN /\ last' = Call("read", block_info,
                                IF SendOk THEN "Ok" ELSE "Err",
                                ReadErrorMsg(block_info, "InvalidBlockOffset"),
                                SendOk, NoMsg, FALSE, FALSE)
                      /\ workers' = workers
                 ELSE /\ last' = Call("read", block_info,
                                IF reply_open THEN "Ok" ELSE "Err",
                                NoMsg, FALSE,
                                BlockMsg(block_info,
                                         cached_block(blocks, block_index)),
                                reply_open, FALSE)
                      /\ workers' = workers
        ELSE LET file_range == files_intersecting_piece(piece_index)
                 len        == piece_len(piece_index)
             IN  IF ~file_range.ok
                 THEN /\ last' = Call("read", block_info,
                                IF SendOk THEN "Ok" ELSE "Err",
                                ReadErrorMsg(block_info, "InvalidPieceIndex"),
                                SendOk, NoMsg, FALSE, FALSE)
                      /\ workers' = workers
                 ELSE IF ~len.ok
                 THEN /\ last' = Call("read", block_info, "Err", NoMsg, FALSE,
                                      NoMsg, FALSE, FALSE)
                      /\ workers' = workers
                 ELSE /\ workers' =
                            Spawn(ReadWorker(block_info, file_range, len.val))
                      /\ last' = Call("read", block_info, "Ok", NoMsg, FALSE,
                                      NoMsg, FALSE, TRUE)

\* A call of read_block by the disk task.
ReadBlockCall ==
    /\ \E block_info \in BlockInfos, reply_open \in BOOLEAN :
            read_block(block_info, reply_open)
    /\ ncalls' = ncalls + 1
    /\ UNCHANGED << piece_hashes, write_buf, read_cache, files, stats,
                    finished, flushed, chan_open >>

ReadBlock ==
    /\ ncalls < MaxCalls
    /\ BagCardinality(workers) < MaxInFlight
    /\ ReadBlockCall

\* TorrentFile::read of `len` bytes at `offset`: fails when the file does
\* not hold the whole range.
file_read(content, offset, len) ==
    IF offset + len <= Len(content)
    THEN [ok |-> TRUE, bytes |-> Slice(content, offset, offset + len)]
    ELSE [ok |-> FALSE, bytes |-> << >>]

\* piece::read takes the read lock of the next file of the piece.
ReadLock(w) ==
    /\ w.kind = "read" /\ w.pc = "lock"
    /\ WriteHeld(w.fi) = {}
    /\ workers' = Step(w, [ w EXCEPT !.pc = "read" ])
    /\ UNCHANGED << piece_hashes, write_buf, read_cache, files, stats,
                    finished, flushed, chan_open, last, ncalls >>

\* (a faulty variant of read_failed: the failure is counted but nothing is
\* sent upstream)
read_failed_silent(me, e) ==
    /\ stats' = [ stats EXCEPT !.read_failure_count = @ + 1 ]
    /\ workers' = Exit(me)
    /\ finished' = Ended(me, "done")

\* (a faulty variant of read_failed: the failure is reported but not
\* counted)
read_failed_uncounted(me, e) ==
    /\ stats' = stats
    /\ workers' = Exit(me)
    /\ finished' = Ended([ me EXCEPT
            !.sent = ReadErrorMsg(me.block_info, e),
            !.sends = @ + 1,
            !.delivered = SendOk ], "done")

\* read_block, lines 487 to 507: a failed read is counted and reported
\* upstream, and the worker ends.
read_failed(me, e) ==
    /\ stats' = [ stats EXCEPT !.read_failure_count = @ + 1 ]
    /\ workers' = Exit(me)
    /\ finished' = Ended([ me EXCEPT
            !.sent = ReadErrorMsg(me.block_info, e),
            !.sends = @ + 1,
            !.delivered = SendOk ], "done")

\* piece::read reads the file it holds and releases it.  A failed read ends
\* the worker with read_failure_count and a ReadError (lines 487 to 507).
ReadFile(w) ==
    /\ w.kind = "read" /\ w.pc = "read"
    /\ LET me  == w
           sl  == get_slice(me.fi, torrent_piece_offset(me.piece_index),
                            me.piece.len)
           got == file_read(files[me.fi + 1], sl.offset, sl.len)
       IN  \E io_ok \in BOOLEAN :
            IF io_ok /\ got.ok
            THEN /\ workers' = Step(me, [ me EXCEPT
                        !.buf = @ \o got.bytes,
                        !.fi = IF me.fi + 1 < me.file_range.end
                               THEN me.fi + 1 ELSE me.fi,
                        !.pc = IF me.fi + 1 < me.file_range.end
                               THEN "lock" ELSE "finish" ])
                 /\ UNCHANGED << stats, finished >>
            ELSE read_failed(me, IF got.ok THEN "Io" ELSE "MissingData")
    /\ UNCHANGED << piece_hashes, write_buf, read_cache, files, flushed,
                    chan_open, last, ncalls >>

\* (a faulty variant of pick_block: the first block of the piece is sent
\* whatever block was asked for)
pick_block_first(blocks, block_index) == blocks[1]

\* read_block, line 462: the requested block of the piece that was read.
pick_block(blocks, block_index) == blocks[block_index + 1]

\* The closure of read_block, lines 459 to 486: the requested block is
\* picked (indexing past the end of the blocks panics the worker), the
\* piece is placed in the read cache, read_count grows, the block is sent.
ReadFinish(w) ==
    /\ w.kind = "read" /\ w.pc = "finish"
    /\ LET me          == w
           blocks      == to_blocks(me.buf)
           block_index == index_in_piece(me.block_info)
       IN  IF block_index >= Len(blocks)
           THEN /\ workers' = Exit(w)
                /\ finished' = Ended(me, "panicked")
                /\ UNCHANGED << read_cache, stats >>
           ELSE \E reply_open \in BOOLEAN :
                /\ read_cache' =
                        [ i \in (DOMAIN read_cache) \cup {me.piece_index} |->
                            IF i = me.piece_index THEN blocks
                            ELSE read_cache[i] ]
                /\ stats' = [ stats EXCEPT !.read_count = @ + me.piece.len ]
                /\ workers' = Exit(w)
                /\ finished' = Ended([ me EXCEPT
                        !.reply = BlockMsg(me.block_info,
                                           pick_block(blocks, block_index)),
                        !.replied = reply_open ], "done")
    /\ UNCHANGED << piece_hashes, write_buf, files, flushed, chan_open, last,
                    ncalls >>

\* The torrent actor goes away: the receiver of the notification channel is
\* dropped.
CloseChan ==
    /\ chan_open
    /\ chan_open' = FALSE
    /\ UNCHANGED << piece_hashes, write_buf, read_cache, files, stats,
                    workers, finished, flushed, last, ncalls >>

\* The blocking pool runs one step of one worker.
HashPiece == \E w \in InFlight : FlushHash(w)
LockForWrite == \E w \in InFlight : FlushLock(w)
WritePiece == \E w \in InFlight : FlushWrite(w)
NotifyCompletion == \E w \in InFlight : FlushNotify(w)
LockForRead == \E w \in InFlight : ReadLock(w)
ReadPiece == \E w \in InFlight : ReadFile(w)
CacheAndReply == \E w \in InFlight : ReadFinish(w)

\* Requests arrive while workers run, and the torrent actor may go away.
Next ==
    \/ WriteBlock
    \/ ReadBlock
    \/ CloseChan
    \/ HashPiece
    \/ LockForWrite
    \/ WritePiece
    \/ NotifyCompletion
    \/ LockForRead
    \/ ReadPiece
    \/ CacheAndReply

Spec == Init /\ [][Next]_vars

\* The caller sends its next request only once the workers of the requests
\* before it have ended, and the torrent actor stays.
SeqWriteBlock ==
    /\ ncalls < MaxSeqCalls
    /\ workers = EmptyBag
    /\ WriteBlockCall

SeqReadBlock ==
    /\ ncalls < MaxSeqCalls
    /\ workers = EmptyBag
    /\ ReadBlockCall

SeqNext ==
    \/ SeqWriteBlock
    \/ SeqReadBlock
    \/ HashPiece
    \/ LockForWrite
    \/ WritePiece
    \/ NotifyCompletion
    \/ LockForRead
    \/ ReadPiece
    \/ CacheAndReply

SeqSpec == Init /\ [][SeqNext]_vars

\* The blocking pool runs every closure handed to it: a worker that can take
\* a step (a file lock is held for one file operation only) takes it.
FairWriteBlock ==
    /\ ncalls < MaxFairCalls
    /\ BagCardinality(workers) < MaxInFlight
    /\ WriteBlockCall

FairReadBlock ==
    /\ ncalls < MaxFairCalls
    /\ BagCardinality(workers) < MaxInFlight
    /\ ReadBlockCall

FairNext ==
    \/ FairWriteBlock
    \/ FairReadBlock
    \/ CloseChan
    \/ HashPiece
    \/ LockForWrite
    \/ WritePiece
    \/ NotifyCompletion
    \/ LockForRead
    \/ ReadPiece
    \/ CacheAndReply

FairSpec ==
    /\ Init /\ [][FairNext]_vars
    /\ WF_vars(HashPiece) /\ WF_vars(LockForWrite) /\ WF_vars(WritePiece)
    /\ WF_vars(NotifyCompletion) /\ WF_vars(LockForRead)
    /\ WF_vars(ReadPiece) /\ WF_vars(CacheAndReply)

\* A request for a block of the torrent.
ValidRequest(call) ==
    /\ call.info.piece_index < info.piece_count
    /\ call.info.offset < piece_len(call.info.piece_index).val

\* The disk does not fail and the peer waits for its block: no worker ends
\* a step with an IO error or with a reply nobody receives.
DiskWorks ==
    /\ finished'.sent # PieceCompletionErr("Io")
    /\ finished'.sent # ReadErrorMsg(finished'.block_info, "Io")
    /\ finished'.reply.type = "Block" => finished'.replied

\* A torrent that is downloaded and served: peers deliver the blocks of the
\* torrent's content, and ask for blocks of pieces that have been flushed,
\* several at a time; the disk works and the channels stay open.
SeedWriteBlock ==
    /\ ncalls < MaxSeedCalls
    /\ BagCardinality(workers) < MaxInFlight
    /\ WriteBlockCall
    /\ ValidRequest(last') /\ last'.data # Corrupt

SeedReadBlock ==
    /\ ncalls < MaxSeedCalls
    /\ BagCardinality(workers) < MaxInFlight
    /\ ReadBlockCall
    /\ ValidRequest(last') /\ last'.after_flush
    /\ last'.reply.type = "Block" => last'.replied

SeedWritePiece == WritePiece /\ DiskWorks
SeedReadPiece == ReadPiece /\ DiskWorks
SeedCacheAndReply == CacheAndReply /\ DiskWorks

SeedNext ==
    \/ SeedWriteBlock
    \/ SeedReadBlock
    \/ HashPiece
    \/ LockForWrite
    \/ SeedWritePiece
    \/ NotifyCompletion
    \/ LockForRead
    \/ SeedReadPiece
    \/ SeedCacheAndReply

SeedSpec ==
    /\ Init /\ [][SeedNext]_vars
    /\ WF_vars(HashPiece) /\ WF_vars(LockForWrite) /\ WF_vars(SeedWritePiece)
    /\ WF_vars(NotifyCompletion) /\ WF_vars(LockForRead)
    /\ WF_vars(SeedReadPiece) /\ WF_vars(SeedCacheAndReply)

\* A torrent whose peers deliver the blocks of its content and ask for its
\* blocks at any time, flushed or not; the disk works and the channels stay
\* open.
PeerWriteBlock ==
    /\ ncalls < MaxPeerCalls
    /\ BagCardinality(workers) < MaxInFlight
    /\ WriteBlockCall
    /\ ValidRequest(last') /\ last'.data # Corrupt

PeerReadBlock ==
    /\ ncalls < MaxPeerCalls
    /\ BagCardinality(workers) < MaxInFlight
    /\ ReadBlockCall
    /\ ValidRequest(last')
    /\ last'.reply.type = "Block" => last'.replied

PeerNext ==
    \/ PeerWriteBlock
    \/ PeerReadBlock
    \/ HashPiece
    \/ LockForWrite
    \/ SeedWritePiece
    \/ NotifyCompletion
    \/ LockForRead
    \/ SeedReadPiece
    \/ SeedCacheAndReply

PeerSpec == Init /\ [][PeerNext]_vars

\* A torrent whose torrent actor and peers stay: the notification channel
\* and the reply channels have their receivers.  Peers deliver the blocks of
\* the content and ask for its blocks at any time; the disk may fail; the
\* workers are scheduled fairly.
OpenWriteBlock ==
    /\ ncalls < MaxOpenCalls
    /\ BagCardinality(workers) < MaxInFlight
    /\ WriteBlockCall
    /\ ValidRequest(last') /\ last'.data # Corrupt

OpenReadBlock ==
    /\ ncalls < MaxOpenCalls
    /\ BagCardinality(workers) < MaxInFlight
    /\ ReadBlockCall
    /\ ValidRequest(last')
    /\ last'.reply.type = "Block" => last'.replied

OpenCacheAndReply ==
    /\ CacheAndReply
    /\ finished'.reply.type = "Block" => finished'.replied

OpenNext ==
    \/ OpenWriteBlock
    \/ OpenReadBlock
    \/ HashPiece
    \/ LockForWrite
    \/ WritePiece
    \/ NotifyCompletion
    \/ LockForRead
    \/ ReadPiece
    \/ OpenCacheAndReply

OpenSpec ==
    /\ Init /\ [][OpenNext]_vars
    /\ WF_vars(HashPiece) /\ WF_vars(LockForWrite) /\ WF_vars(WritePiece)
    /\ WF_vars(NotifyCompletion) /\ WF_vars(LockForRead)
    /\ WF_vars(ReadPiece) /\ WF_vars(OpenCacheAndReply)

------------------------------------------------------------------------------
(* The claims about the write path. *)

\* The digest of piece `index` in the hash table, at index * 20.
ExpectedDigest(index) ==
    Slice(piece_hashes, index * SHA1_LEN, index * SHA1_LEN + SHA1_LEN)

\* The blocks of a flush worker's piece, concatenated in offset order, hash
\* to the piece's digest in the hash table.
HashMatches(w) == Sha1(Concat(w.piece.blocks)) = ExpectedDigest(w.piece_index)

\* The flush workers of piece `index` in a bag of workers, as a bag.
FlushesIn(bag, index) ==
    [ w \in { v \in BagToSet(bag) :
                v.kind = "flush" /\ v.piece_index = index } |-> bag[w] ]

\* The flush workers in flight for piece `index`.
FlushesOf(index) == FlushesIn(workers, index)

\* C1 as stated: the notification of the flush of piece P is
\* PieceCompletion Ok{index: P, is_valid: true} if and only if P's blocks,
\* concatenated in offset order, hash to P's digest in the hash table.
C1_ValidIffHashMatches ==
    finished.kind = "flush" =>
        ( finished.sent = PieceCompletionOk(finished.piece_index, TRUE)
            <=> HashMatches(finished) )

\* C1 amended: the notification of the flush of piece P is Ok{index: P,
\* is_valid: v} with v true if and only if the hash matches, except that a
\* piece whose hash matches and whose disk write fails is reported with
\* PieceCompletion Err(write error) instead.
C1_ValidityFlagIsHashResult ==
    finished.kind = "flush" =>
        /\ finished.sent.type = "PieceCompletion"
        /\ finished.sent.ok =>
                /\ finished.sent.index = finished.piece_index
                /\ finished.sent.is_valid = HashMatches(finished)
        /\ ~finished.sent.ok =>
                /\ HashMatches(finished)
                /\ finished.sent.error = "Io"

\* A two-block piece whose blocks hash to its digest has been reported valid.
C1_Witness ==
    /\ finished.kind = "flush" /\ finished.piece_index = 0
    /\ HashMatches(finished)
    /\ finished.sent = PieceCompletionOk(0, TRUE)

\* Every byte on disk is a hole (never written) or the byte that a piece
\* matching its digest has at that place.
DiskVerified ==
    \A f \in 1..Len(files) : \A i \in 1..Len(files[f]) :
        LET at    == info.files[f].torrent_offset + i - 1
            index == at \div info.piece_len
            bytes == PieceContent(index)
        IN  \/ files[f][i] = 0
            \/ /\ Sha1(bytes) = ExpectedDigest(index)
               /\ files[f][i] = bytes[at - torrent_piece_offset(index) + 1]

\* C2: the files hold only bytes of pieces that passed the hash check: a
\* flush worker whose piece does not match its digest never takes a file
\* lock or writes, is reported with Ok{is_valid: false}, and no step changes
\* a file, write_count or write_failure_count unless a flush worker whose
\* piece matches moves in it.
C2_OnlyVerifiedPiecesWritten ==
    /\ [] DiskVerified
    /\ [] ( \A w \in InFlight :
                w.kind = "flush" /\ w.pc \in { "lock", "write" }
                    => HashMatches(w) )
    /\ [] ( finished.kind = "flush" /\ ~HashMatches(finished)
                => finished.sent =
                        PieceCompletionOk(finished.piece_index, FALSE) )
    /\ [][ ( \/ files' # files
             \/ stats'.write_count # stats.write_count
             \/ stats'.write_failure_count # stats.write_failure_count )
           => \E w \in InFlight :
                /\ w.kind = "flush" /\ w.pc = "write" /\ HashMatches(w)
                /\ CopiesIn(w, workers') < CopiesIn(w, workers) ]_vars

\* A flush of a corrupt piece has ended, reported invalid, with nothing on
\* disk and the write counters untouched.
C2_Witness ==
    /\ finished.kind = "flush" /\ ~HashMatches(finished)
    /\ finished.sent = PieceCompletionOk(finished.piece_index, FALSE)
    /\ \A f \in 1..Len(files) : files[f] = << >>
    /\ stats.write_count = 0 /\ stats.write_failure_count = 0

\* C3: a flush worker has sent nothing while it runs and has attempted
\* exactly one PieceCompletion send when it has ended, whatever its outcome.
C3_ExactlyOneSend ==
    /\ \A w \in InFlight : w.kind = "flush" => w.sends = 0
    /\ finished.kind = "flush" =>
            finished.sends = 1 /\ finished.sent.type = "PieceCompletion"

\* A flush whose piece was valid and whose write failed has ended with its
\* one send.
C3_Witness ==
    /\ finished.kind = "flush" /\ finished.is_valid
    /\ finished.sent = PieceCompletionErr("Io")
    /\ finished.sends = 1
    /\ stats.write_failure_count > 0

\* C4 as stated: at most one flush worker per piece index is in flight.
C4_OneFlushPerPieceIndex ==
    \A index \in PieceIndices : BagCardinality(FlushesOf(index)) <= 1

\* C4 amended: the call of write_block that completes a piece removes it
\* from write_buf and dispatches exactly one flush worker for it, so no block
\* is ever enqueued into a buffer that a worker holds; a later write_block
\* for the same index starts a new buffer, and flush workers of the same
\* piece index may then be in flight together.
C4_PieceRemovedAtDispatch ==
    [][ ( ncalls' = ncalls + 1 /\ last'.op = "write" /\ last'.spawned )
        => /\ last'.info.piece_index \notin DOMAIN write_buf'
           /\ BagCardinality(workers') = BagCardinality(workers) + 1
           /\ BagCardinality(FlushesIn(workers', last'.info.piece_index)) =
                BagCardinality(FlushesIn(workers, last'.info.piece_index))
                    + 1 ]_vars

\* Two flush workers of piece 1 are in flight together, and write_buf holds
\* nothing of piece 1.
C4_Witness ==
    /\ BagCardinality(FlushesOf(1)) = 2
    /\ 1 \notin DOMAIN write_buf

------------------------------------------------------------------------------
(* The claims about reads and about requests that are refused. *)

\* The number of blocks of piece `index`.
BlockCount(index) == (piece_len(index).val + BLOCK_LEN - 1) \div BLOCK_LEN

\* The bytes that the last successful flush of the piece wrote for the block.
WrittenBlock(block_info) ==
    LET bytes == flushed[block_info.piece_index]
    IN  Slice(bytes, block_info.offset,
              Min(block_info.offset + BLOCK_LEN, Len(bytes)))

\* C5: once a piece has been flushed successfully, a Block that a later
\* read_block of that piece delivers, from the read cache or from disk,
\* holds the bytes that were written for that block.
C5_ReadReturnsWritten ==
    /\ ( last.op = "read" /\ last.after_flush /\ last.reply.type = "Block" )
            => last.reply.data = WrittenBlock(last.info)
    /\ ( finished.kind = "read" /\ finished.after_flush
         /\ finished.reply.type = "Block" )
            => finished.reply.data = WrittenBlock(finished.block_info)

\* C6: a write_block for a piece index that start_new_piece refuses sends
\* PieceCompletion Err(InvalidPieceIndex), returns Ok, dispatches no worker
\* and leaves no entry for the index in write_buf.
C6_InvalidWriteRefused ==
    ( last.op = "write" /\ ~start_new_piece(last.info.piece_index).ok )
        => /\ last.sent = PieceCompletionErr("InvalidPieceIndex")
           /\ last.ret = "Ok"
           /\ ~last.spawned
           /\ last.info.piece_index \notin DOMAIN write_buf

\* C7: a read_block for a piece index beyond the torrent's pieces sends
\* ReadError{block_info, InvalidPieceIndex}, returns Ok, dispatches no
\* worker and sends nothing on the reply channel (and the piece is never in
\* the read cache).
C7_InvalidReadRefused ==
    ( last.op = "read" /\ last.info.piece_index >= info.piece_count )
        => /\ last.sent = ReadErrorMsg(last.info, "InvalidPieceIndex")
           /\ last.ret = "Ok"
           /\ ~last.spawned
           /\ last.reply = NoMsg
           /\ last.info.piece_index \notin DOMAIN read_cache

\* C8: a read_block whose block index is not below the number of blocks of
\* its (valid) piece ends in a ReadError notification, InvalidBlockOffset
\* when the piece was found in the cache or read from disk, and in no Block,
\* on a cache hit and on a cache miss alike; the call returns Ok when the
\* notification could be sent.
C8_InvalidOffsetReported ==
    /\ ( /\ last.op = "read" /\ last.info.piece_index < info.piece_count
         /\ index_in_piece(last.info) >= BlockCount(last.info.piece_index)
         /\ ~last.spawned )
            => /\ last.sent = ReadErrorMsg(last.info, "InvalidBlockOffset")
               /\ last.reply = NoMsg
               /\ last.delivered => last.ret = "Ok"
    /\ ( /\ finished.kind = "read"
         /\ index_in_piece(finished.block_info)
                >= BlockCount(finished.piece_index) )
            => /\ finished.sent.type = "ReadError"
               /\ finished.sent.error \in
                    { "InvalidBlockOffset", "MissingData", "Io" }
               /\ finished.reply = NoMsg

\* C9: write_block and read_block return Ok whether or not the receivers of
\* the notification channel and of the reply channel are alive.
C9_SendFailureNotEscalated == last.ret = "Ok"

\* The worker that a step adds to the pool.
Spawned(before, after) ==
    CHOOSE w \in BagToSet(after) : CopiesIn(w, after) > CopiesIn(w, before)

\* C10: a call of write_block that start_new_piece does not refuse hands the
\* piece to a flush worker exactly when the bytes enqueued for the piece,
\* this block included, add up to the piece's length, which they did not
\* before; the blocks handed over, or left in write_buf, are the blocks held
\* before the call and this block, whatever the order they came in.
C10_FlushExactlyWhenComplete ==
    [][ ( /\ ncalls' = ncalls + 1 /\ last'.op = "write"
          /\ start_new_piece(last'.info.piece_index).ok )
        => LET index  == last'.info.piece_index
               offset == last'.info.offset
               before == IF index \in DOMAIN write_buf
                         THEN write_buf[index].blocks ELSE << >>
               Grown(blocks) ==
                    /\ DOMAIN blocks = (DOMAIN before) \cup {offset}
                    /\ \A o \in (DOMAIN before) \ {offset} :
                            blocks[o] = before[o]
           IN  /\ Len(Concat(before)) # piece_len(index).val
               /\ IF last'.spawned
                  THEN LET w == Spawned(workers, workers')
                       IN  /\ w.kind = "flush" /\ w.piece_index = index
                           /\ w.pc = "hash"
                           /\ Grown(w.piece.blocks)
                           /\ Len(Concat(w.piece.blocks)) = w.piece.len
                           /\ w.piece.len = piece_len(index).val
                           /\ index \notin DOMAIN write_buf'
                  ELSE /\ workers' = workers
                       /\ index \in DOMAIN write_buf'
                       /\ Grown(write_buf'[index].blocks)
                       /\ Len(Concat(write_buf'[index].blocks))
                            # piece_len(index).val ]_vars

\* Piece 0 was completed by its block at offset 0, its block at BLOCK_LEN
\* having come first, and the worker holds both.
C10_Witness ==
    /\ last.op = "write" /\ last.spawned
    /\ last.info = [piece_index |-> 0, offset |-> 0]
    /\ \E w \in InFlight :
        /\ w.kind = "flush" /\ w.piece_index = 0 /\ w.pc = "hash"
        /\ DOMAIN w.piece.blocks = { 0, BLOCK_LEN }
        /\ Concat(w.piece.blocks) = PieceContent(0)

------------------------------------------------------------------------------
(* The claims about the buffers, the counters and the locks. *)

\* C11: a write_block at an offset its piece, still in write_buf, already
\* holds a block for leaves the piece in write_buf with the same offsets, the
\* second payload at that offset and the other blocks as they were, and
\* dispatches no worker: the duplicate adds no entry and does not complete
\* the piece.
C11_DuplicateOverwrites ==
    [][ ( /\ ncalls' = ncalls + 1 /\ last'.op = "write"
          /\ last'.info.piece_index \in DOMAIN write_buf
          /\ last'.info.offset \in
                DOMAIN write_buf[last'.info.piece_index].blocks )
        => LET index  == last'.info.piece_index
               offset == last'.info.offset
               before == write_buf[index].blocks
           IN  /\ ~last'.spawned /\ workers' = workers
               /\ index \in DOMAIN write_buf'
               /\ DOMAIN write_buf'[index].blocks = DOMAIN before
               /\ write_buf'[index].blocks[offset] = last'.data
               /\ \A o \in (DOMAIN before) \ {offset} :
                    write_buf'[index].blocks[o] = before[o]
               /\ ~is_complete(write_buf'[index]) ]_vars

\* Piece 0 holds one block, the second of two different payloads submitted
\* at offset 0.
C11_Witness ==
    /\ last.op = "write" /\ last.info = [piece_index |-> 0, offset |-> 0]
    /\ last.data = Slice(TorrentContent, 0, BLOCK_LEN)
    /\ 0 \in DOMAIN write_buf
    /\ DOMAIN write_buf[0].blocks = {0}
    /\ write_buf[0].blocks[0] = last.data
    /\ ncalls = 2 /\ stats.write_count = 0 /\ workers = EmptyBag
    /\ finished = Idle

\* The file a read worker holds does not contain the whole range of the
\* piece that lies in it.
RangeMissing(w) ==
    LET sl == get_slice(w.fi, torrent_piece_offset(w.piece_index), w.piece.len)
    IN  ~file_read(files[w.fi + 1], sl.offset, sl.len).ok

\* No read worker is in flight.
ReadsDone == \A w \in InFlight : w.kind # "read"

C13_ConcurrentReadsServed ==
    /\ [] ( finished.kind = "read" =>
                /\ finished.pc = "done" /\ finished.replied
                /\ finished.sent = NoMsg
                /\ finished.reply =
                        BlockMsg(finished.block_info,
                                 WrittenBlock(finished.block_info)) )
    /\ [][ stats'.read_count # stats.read_count
            => \E w \in InFlight :
                /\ w.kind = "read" /\ w.pc = "finish"
                /\ CopiesIn(w, workers') = CopiesIn(w, workers) - 1
                /\ BagCardinality(workers') = BagCardinality(workers) - 1
                /\ stats'.read_count =
                        stats.read_count + piece_len(w.piece_index).val ]_vars
    /\ [][ \A w \in InFlight :
            ( /\ w.kind = "read" /\ w.pc = "finish"
              /\ CopiesIn(w, workers') < CopiesIn(w, workers) )
            => stats'.read_count =
                    stats.read_count + piece_len(w.piece_index).val ]_vars
    /\ []<> ReadsDone

\* Both blocks of piece 0 were asked for before either read had filled the
\* cache: both workers read the disk and have ended, the one of the earlier
\* call last, and read_count is twice the length of the piece.
C13_Witness ==
    /\ ncalls = 4 /\ workers = EmptyBag
    /\ last.op = "read" /\ last.spawned /\ last.info.piece_index = 0
    /\ finished.kind = "read" /\ finished.piece_index = 0
    /\ finished.block_info.offset # last.info.offset
    /\ finished.reply =
            BlockMsg(finished.block_info, WrittenBlock(finished.block_info))
    /\ stats.read_count = 2 * info.piece_len

\* C14: an entry of the read cache, once present, stays and keeps its
\* content: an insert for a piece index that holds an entry replaces it with
\* the same blocks.
C14_CacheEntryNeverChanges ==
    [][ \A index \in DOMAIN read_cache :
            /\ index \in DOMAIN read_cache'
            /\ read_cache'[index] = read_cache[index] ]_vars

\* The files hold `bytes` as the content of piece `index`.
OnDisk(index, bytes) ==
    LET lo    == torrent_piece_offset(index)
        range == files_intersecting_piece(index)
    IN  \A f \in range.start..(range.end - 1) :
            LET sl == get_slice(f, lo, Len(bytes))
                at == info.files[f + 1].torrent_offset + sl.offset - lo
            IN  file_read(files[f + 1], sl.offset, sl.len) =
                    [ok |-> TRUE, bytes |-> Slice(bytes, at, at + sl.len)]

\* The worker `w` takes the step, or one like it does.
Moves(w) == CopiesIn(w, workers') < CopiesIn(w, workers)

\* The pool holds one more worker `v` after the step.
Becomes(v) == CopiesIn(v, workers') = CopiesIn(v, workers) + 1

\* C15: with the receiver of the notification channel gone, the workers go
\* on as they do otherwise.  A flush worker whose piece is valid writes each
\* file of the piece, and write_count grows by the piece's length with the
\* last one; a flush that ends reporting a piece valid has the piece on
\* disk, delivered or not.  A read worker that has read its piece places it
\* in the read cache, and read_count grows by the piece's length.  The step
\* that makes the failed send ends the worker, records one send, and changes
\* nothing but the counter its outcome is counted in.  Every worker ends.
C15_WorkersOutliveChannel ==
    /\ [] ( ( finished.kind = "flush" /\ finished.pc = "done"
              /\ finished.sent = PieceCompletionOk(finished.piece_index, TRUE) )
            => OnDisk(finished.piece_index, Concat(finished.piece.blocks)) )
    /\ [] ( \A w \in InFlight :
                ( w.kind = "flush" /\ w.pc = "notify" /\ HashMatches(w) )
                    => OnDisk(w.piece_index, Concat(w.piece.blocks)) )
    /\ [][ ~chan_open => \A w \in InFlight :
            ( Moves(w) /\ w.kind = "flush" /\ w.pc = "write"
              /\ stats'.write_failure_count = stats.write_failure_count )
            => LET sl == piece_file_slice(w, w.fi)
               IN  /\ files' = [ files EXCEPT ![w.fi + 1] =
                                    file_write(@, sl.offset, sl.bytes) ]
                   /\ stats'.write_count =
                        IF w.fi + 1 < w.file_range.end THEN stats.write_count
                        ELSE stats.write_count + w.piece.len ]_vars
    /\ [][ ~chan_open => \A w \in InFlight :
            ( Moves(w) /\ w.kind = "read" /\ w.pc = "finish"
              /\ index_in_piece(w.block_info) < Len(to_blocks(w.buf)) )
            => /\ w.piece_index \in DOMAIN read_cache'
               /\ read_cache'[w.piece_index] = to_blocks(w.buf)
               /\ stats'.read_count = stats.read_count + w.piece.len
               /\ finished'.kind = "read" /\ finished'.pc = "done" ]_vars
    /\ [][ ( ~chan_open /\ finished' # finished /\ finished'.sends = 1 )
            => /\ ~finished'.delivered /\ finished'.pc = "done"
               /\ BagCardinality(workers') = BagCardinality(workers) - 1
               /\ files' = files /\ read_cache' = read_cache
               /\ write_buf' = write_buf
               /\ stats' =
                    IF finished'.sent.type = "ReadError"
                        THEN [ stats EXCEPT !.read_failure_count = @ + 1 ]
                    ELSE IF ~finished'.sent.ok
                        THEN [ stats EXCEPT !.write_failure_count = @ + 1 ]
                    ELSE stats ]_vars
    /\ []<> (workers = EmptyBag)

\* With the receiver gone, the flush of piece 1 has ended: its completion
\* was not delivered, the piece is on disk and write_count is its length.
C15_Witness ==
    /\ ~chan_open
    /\ finished.kind = "flush" /\ finished.piece_index = 1
    /\ finished.sent = PieceCompletionOk(1, TRUE)
    /\ finished.sends = 1 /\ ~finished.delivered
    /\ OnDisk(1, PieceContent(1))
    /\ stats.write_count = info.last_piece_len
    /\ workers = EmptyBag

\* C16: between calls every entry of write_buf is a piece of the torrent
\* that holds at least one block and is not complete.  A key enters write_buf
\* only with the first block a write_block call accepts for it, and leaves
\* only in the write_block call that completes its piece, which hands the
\* piece to the worker it dispatches with the key already removed.
C16_BufferHoldsIncompletePieces ==
    /\ [] ( \A index \in DOMAIN write_buf :
                /\ index < info.piece_count
                /\ DOMAIN write_buf[index].blocks # {}
                /\ ~is_complete(write_buf[index]) )
    /\ [][ \A index \in PieceIndices :
            /\ ( index \notin DOMAIN write_buf /\ index \in DOMAIN write_buf' )
                => /\ ncalls' = ncalls + 1 /\ last'.op = "write"
                   /\ last'.info.piece_index = index /\ ~last'.spawned
                   /\ DOMAIN write_buf'[index].blocks = { last'.info.offset }
                   /\ write_buf'[index].blocks[last'.info.offset] = last'.data
            /\ ( index \in DOMAIN write_buf /\ index \notin DOMAIN write_buf' )
                => /\ ncalls' = ncalls + 1 /\ last'.op = "write"
                   /\ last'.info.piece_index = index /\ last'.spawned
                   /\ LET w == Spawned(workers, workers')
                      IN  /\ w.kind = "flush" /\ w.piece_index = index
                          /\ w.pc = "hash" /\ is_complete(w.piece)
                          /\ \A o \in DOMAIN write_buf[index].blocks :
                                o # last'.info.offset =>
                                    w.piece.blocks[o] =
                                        write_buf[index].blocks[o] ]_vars

\* Piece 0 waits in write_buf with one block while piece 1, completed by the
\* last call, is with its flush worker and no longer a key.
C16_Witness ==
    /\ DOMAIN write_buf = {0}
    /\ Cardinality(DOMAIN write_buf[0].blocks) = 1
    /\ last.op = "write" /\ last.spawned /\ last.info.piece_index = 1
    /\ \E w \in InFlight :
            w.kind = "flush" /\ w.piece_index = 1 /\ w.pc = "hash"

\* C17: the write counters are moved by flush workers only, once for each
\* flush of a piece that matches its digest.  Such a worker goes from the
\* hash to its files; the step in which it writes a file either goes on to
\* the next file with both counters as they were, or (after the last file)
\* adds the piece's length to write_count and goes on to the notification,
\* or (the write failed) adds 1 to write_failure_count and ends the worker
\* with PieceCompletion Err.  A worker whose piece does not match goes from
\* the hash to the notification, and no other step of a flush worker changes
\* a counter.
C17_WriteCountersFollowFlushes ==
    /\ [][ \A w \in InFlight : ( Moves(w) /\ w.kind = "flush" ) =>
            IF w.pc = "write"
            THEN /\ HashMatches(w)
                 /\ \/ /\ stats' = stats
                       /\ w.fi + 1 < w.file_range.end
                       /\ Becomes([ w EXCEPT !.fi = w.fi + 1, !.pc = "lock" ])
                    \/ /\ stats' = [ stats EXCEPT
                                        !.write_count = @ + w.piece.len ]
                       /\ w.fi + 1 = w.file_range.end
                       /\ Becomes([ w EXCEPT !.pc = "notify" ])
                    \/ /\ stats' = [ stats EXCEPT
                                        !.write_failure_count = @ + 1 ]
                       /\ BagCardinality(workers') =
                            BagCardinality(workers) - 1
                       /\ finished'.sent = PieceCompletionErr("Io")
                       /\ finished'.piece = w.piece
            ELSE /\ stats' = stats
                 /\ w.pc = "hash" =>
                        Becomes([ w EXCEPT
                            !.is_valid = HashMatches(w),
                            !.pc = IF HashMatches(w) THEN "lock"
                                   ELSE "notify" ])
                 /\ w.pc = "lock" => Becomes([ w EXCEPT !.pc = "write" ])
                 /\ w.pc = "notify" =>
                        BagCardinality(workers') =
                            BagCardinality(workers) - 1 ]_vars
    /\ [][ ( \/ stats'.write_count # stats.write_count
             \/ stats'.write_failure_count # stats.write_failure_count )
            => \E w \in InFlight :
                Moves(w) /\ w.kind = "flush" /\ w.pc = "write" ]_vars

\* Piece 1 was flushed three times: written, failed to write, and found
\* corrupt; write_count is its length and write_failure_count is 1.
C17_Witness ==
    /\ ncalls = 3 /\ workers = EmptyBag
    /\ finished.kind = "flush"
    /\ finished.sent = PieceCompletionOk(1, FALSE)
    /\ stats.write_count = info.last_piece_len
    /\ stats.write_failure_count = 1

\* C18: a read_block for a piece in the read cache and a block index below
\* the number of its cached blocks sends the cached block of that index on
\* the reply channel and does nothing else: no worker is dispatched, nothing
\* is sent upstream, and the files, the read cache, the four counters and
\* write_buf are as they were.
C18_CacheHitOnlyReplies ==
    [][ ( /\ ncalls' = ncalls + 1 /\ last'.op = "read"
          /\ last'.info.piece_index \in DOMAIN read_cache
          /\ index_in_piece(last'.info)
                < Len(read_cache[last'.info.piece_index]) )
        => /\ last'.reply =
                BlockMsg(last'.info,
                         read_cache[last'.info.piece_index]
                                   [index_in_piece(last'.info) + 1])
           /\ last'.sent = NoMsg /\ ~last'.delivered
           /\ ~last'.spawned /\ workers' = workers
           /\ finished' = finished
           /\ files' = files /\ read_cache' = read_cache
           /\ stats' = stats /\ write_buf' = write_buf ]_vars

\* The second block of piece 0 was served from the cache that the read of
\* its first block had filled: one read of the disk is counted.
C18_Witness ==
    /\ ncalls = 4 /\ workers = EmptyBag
    /\ last.op = "read" /\ ~last.spawned
    /\ last.info = [piece_index |-> 0, offset |-> BLOCK_LEN]
    /\ last.reply =
            BlockMsg(last.info, Slice(TorrentContent, BLOCK_LEN, 2 * BLOCK_LEN))
    /\ 0 \in DOMAIN read_cache
    /\ finished.kind = "read"
    /\ finished.block_info = [piece_index |-> 0, offset |-> 0]
    /\ stats.read_count = info.piece_len

\* The number of workers in a set of workers in flight.
CountOf(held) ==
    BagCardinality([ w \in held |-> CopiesIn(w, workers) ])

\* C19: of every file, at most one worker holds write access, and none
\* holds read access while one holds write access (any number may hold read
\* access together).
C19_WritersExclusive ==
    \A f \in 0..(Len(info.files) - 1) :
        /\ CountOf(WriteHeld(f)) <= 1
        /\ CountOf(WriteHeld(f)) = 1 => CountOf(ReadHeld(f)) = 0

\* Two read workers, of piece 0 and of piece 1, hold read access to the
\* first file together, and nobody holds write access to it.
C19_Witness ==
    /\ CountOf(ReadHeld(0)) = 2
    /\ { w.piece_index : w \in ReadHeld(0) } = { 0, 1 }
    /\ WriteHeld(0) = {}

------------------------------------------------------------------------------
(* The claims about the order of a flush. *)

\* C20: PieceCompletion Ok{index, is_valid: true} is sent by a flush worker
\* that has written every file range of the piece and has added the piece's
\* length to write_count: the step that sends it changes no file and no
\* counter and finds the piece on disk, where it is whenever the message has
\* been sent; the step that wrote the last range added the length.  A flush
\* whose write fails ends in that step with PieceCompletion Err as its one
\* message.
C20_ValidReportedAfterWrite ==
    /\ [] ( ( finished.kind = "flush"
              /\ finished.sent = PieceCompletionOk(finished.piece_index, TRUE) )
            => /\ finished.sends = 1 /\ finished.is_valid
               /\ OnDisk(finished.piece_index, Concat(finished.piece.blocks))
               /\ stats.write_count >= finished.piece.len )
    /\ [][ \A w \in InFlight :
            ( /\ Moves(w) /\ w.kind = "flush"
              /\ finished' # finished
              /\ finished'.sent = PieceCompletionOk(w.piece_index, TRUE) )
            => /\ w.pc = "notify" /\ w.is_valid /\ w.sends = 0
               /\ OnDisk(w.piece_index, Concat(w.piece.blocks))
               /\ stats.write_count >= w.piece.len
               /\ files' = files /\ stats' = stats ]_vars
    /\ [][ \A w \in InFlight :
            ( Moves(w) /\ w.kind = "flush" /\ Becomes([ w EXCEPT !.pc = "notify" ])
              /\ w.is_valid )
            => /\ w.pc = "write" /\ w.fi + 1 = w.file_range.end
               /\ stats'.write_count = stats.write_count + w.piece.len
               /\ OnDisk(w.piece_index, Concat(w.piece.blocks))' ]_vars
    /\ [][ stats'.write_failure_count # stats.write_failure_count
            => /\ finished'.kind = "flush" /\ finished'.pc = "done"
               /\ finished'.sent = PieceCompletionErr("Io")
               /\ finished'.sends = 1
               /\ BagCardinality(workers') = BagCardinality(workers) - 1 ]_vars

\* Piece 1, which lies in both files, was reported valid: both files hold
\* its bytes and write_count is its length.
C20_Witness ==
    /\ finished.kind = "flush" /\ finished.piece_index = 1
    /\ finished.sent = PieceCompletionOk(1, TRUE) /\ finished.delivered
    /\ OnDisk(1, PieceContent(1))
    /\ Len(files[1]) = 5 /\ Len(files[2]) = 1
    /\ stats.write_count = info.last_piece_len
    /\ stats.write_failure_count = 0

------------------------------------------------------------------------------
(* The claims about the answer to a read. *)

\* The answer is one Block on the reply channel and nothing upstream.
OneBlock(block_info, sent, delivered, reply, replied) ==
    /\ reply.type = "Block" /\ reply.block_info = block_info /\ replied
    /\ sent = NoMsg /\ ~delivered

\* The answer is one ReadError upstream and nothing on the reply channel.
OneReadError(block_info, sent, delivered, reply, replied) ==
    /\ sent.type = "ReadError" /\ sent.block_info = block_info /\ delivered
    /\ reply = NoMsg /\ ~replied

\* C21: with both channels open, a read_block for a block of the torrent is
\* answered exactly once.  The call that finds the piece in the cache sends
\* one Block and dispatches nobody; the call that does not sends nothing
\* and dispatches a worker, which has sent nothing while it runs, ends
\* (under fair scheduling, whatever the other workers do), and in the step
\* it ends has sent either one Block on the reply channel or one ReadError
\* upstream, never both and never neither.
C21_ReadAnsweredOnce ==
    /\ [] ( last.op = "read" =>
                /\ last.ret = "Ok"
                /\ IF last.spawned
                   THEN /\ last.sent = NoMsg /\ ~last.delivered
                        /\ last.reply = NoMsg /\ ~last.replied
                   ELSE OneBlock(last.info, last.sent, last.delivered,
                                 last.reply, last.replied) )
    /\ [] ( \A w \in InFlight : w.kind = "read" =>
                /\ w.sends = 0 /\ w.sent = NoMsg /\ w.reply = NoMsg
                /\ ~w.delivered /\ ~w.replied )
    /\ [] ( finished.kind = "read" =>
                /\ finished.pc = "done"
                /\ \/ /\ OneBlock(finished.block_info, finished.sent,
                                   finished.delivered, finished.reply,
                                   finished.replied)
                      /\ finished.sends = 0
                   \/ /\ OneReadError(finished.block_info, finished.sent,
                                       finished.delivered, finished.reply,
                                       finished.replied)
                      /\ finished.sends = 1 )
    /\ [][ ( ncalls' = ncalls + 1 /\ last'.op = "read" ) =>
            /\ last'.spawned <=>
                    last'.info.piece_index \notin DOMAIN read_cache
            /\ IF last'.spawned
               THEN /\ BagCardinality(workers') = BagCardinality(workers) + 1
                    /\ \E w \in BagToSet(workers') :
                        /\ Becomes(w) /\ w.kind = "read"
                        /\ w.block_info = last'.info
               ELSE workers' = workers ]_vars
    /\ [][ \A w \in InFlight : ( Moves(w) /\ w.kind = "read" ) =>
            \/ /\ BagCardinality(workers') = BagCardinality(workers)
               /\ finished' = finished
            \/ /\ BagCardinality(workers') = BagCardinality(workers) - 1
               /\ finished'.kind = "read"
               /\ finished'.block_info = w.block_info ]_vars
    /\ []<> ( \A w \in InFlight : w.kind = "flush" )

\* Piece 1 was read from disk while its second flush was running, and the
\* Block was delivered.
C21_Witness ==
    /\ ncalls = 3 /\ chan_open
    /\ finished.kind = "read" /\ finished.pc = "done"
    /\ finished.block_info = [piece_index |-> 1, offset |-> 0]
    /\ OneBlock(finished.block_info, finished.sent, finished.delivered,
                finished.reply, finished.replied)
    /\ stats.read_failure_count = 0
    /\ \E w \in InFlight : w.kind = "flush" /\ w.piece_index = 1

==============================================================================
